---- MODULE Spec2Model ----
(***************************************************************************)
(* Model of the flowform core (packages/core): the single-turn orchestrator *)
(* runLlmStep with its response interpreter, the validation dispatcher and  *)
(* its validators, and the caller loop documented in the core README, which *)
(* derives the next session snapshot from each turn's result.               *)
(*                                                                          *)
(* Strings that the code inspects character by character are sequences of   *)
(* one-character strings; identifiers that are only compared are strings.   *)
(* JSON/JS values are records [t, s, n]: t the JS type, s the characters of  *)
(* a string (for an array: of its String() rendering), n the number (for an *)
(* array: its length).                                                      *)
(***************************************************************************)
EXTENDS Integers, Sequences, FiniteSets, TLC

VARIABLES
    form,           \* the form definition the caller runs turns for
    session,        \* the caller's current session snapshot
    pc,             \* where the current invocation of runLlmStep stands
    messages,       \* the messages handed to llmClient.complete
    reply,          \* the reply llmClient.complete resolved to
    outcome,        \* what runLlmStep returned or threw
    hostOffset,     \* the host's time zone, in minutes east of UTC
    legacyDate,     \* what the engine's fallback date parser makes of a string
    thrown,         \* what llmClient.complete rejected with
    calls,          \* how often the current invocation has called the client
    client,         \* a deterministic model client: its answer to each input
    invocations,    \* two invocations of runLlmStep that are in flight together
    checked         \* one call of validateField: its arguments and its result

vars ==
    <<form, session, pc, messages, reply, outcome, hostOffset, legacyDate, thrown, calls,
      client, invocations, checked>>

(***************************************************************************)
(* Bounds of the model.                                                     *)
(***************************************************************************)
\* longest field list of a form
MaxFields == 3
\* most keys in the extractedFields mapping of one reply
MaxKeys == 2
\* most successful turns the caller loop appends to one session
MaxTurns == 2
\* the number of fields of the forms that two invocations run for together
PairFields == 1

\* the number of fields of a form in SpecKinds
KindFields == 2

(***************************************************************************)
(* JS values.                                                               *)
(***************************************************************************)
VNull == [t |-> "null", s |-> <<>>, n |-> 0]

VUndefined == [t |-> "undefined", s |-> <<>>, n |-> 0]

VStr(chars) == [t |-> "string", s |-> chars, n |-> 0]

VNum(k) == [t |-> "number", s |-> <<>>, n |-> k]

VBool(b) == [t |-> "boolean", s |-> <<>>, n |-> IF b THEN 1 ELSE 0]

\* an array of len items whose String() rendering is chars
VArr(len, chars) == [t |-> "array", s |-> chars, n |-> len]

\* a nested object used as a value
VObj == [t |-> "object", s |-> <<>>, n |-> 0]

Null == "<null>"

Undefined == "<undefined>"

DigitChars == <<"0", "1", "2", "3", "4", "5", "6", "7", "8", "9">>

IsDigit(c) == \E i \in 1..Len(DigitChars) : DigitChars[i] = c

DigitValue(c) == (CHOOSE i \in 1..Len(DigitChars) : DigitChars[i] = c) - 1

\* \s of the regular expressions
IsSpace(c) == c = " "

RECURSIVE NatToChars(_)
NatToChars(k) ==
    IF k < 10 THEN <<DigitChars[k + 1]>>
    ELSE Append(NatToChars(k \div 10), DigitChars[(k % 10) + 1])

\* String(k) for an integer k
IntToChars(k) == IF k < 0 THEN <<"-">> \o NatToChars(0 - k) ELSE NatToChars(k)

\* String.prototype.trim
RECURSIVE TrimLeft(_)
TrimLeft(chars) ==
    IF chars # <<>> /\ IsSpace(Head(chars)) THEN TrimLeft(Tail(chars)) ELSE chars

RECURSIVE TrimRight(_)
TrimRight(chars) ==
    IF chars # <<>> /\ IsSpace(chars[Len(chars)])
    THEN TrimRight(SubSeq(chars, 1, Len(chars) - 1))
    ELSE chars

Trim(chars) == TrimRight(TrimLeft(chars))

RECURSIVE DigitsToNat(_)
DigitsToNat(chars) ==
    IF chars = <<>> THEN 0
    ELSE DigitsToNat(SubSeq(chars, 1, Len(chars) - 1)) * 10
         + DigitValue(chars[Len(chars)])

AllDigits(chars) == chars # <<>> /\ \A i \in 1..Len(chars) : IsDigit(chars[i])

\* Number(string): [nan, n]; the strings of the model hold no fraction,
\* exponent or radix prefix
StringToNumber(chars) ==
    LET t == Trim(chars)
    IN  IF t = <<>> THEN [nan |-> FALSE, n |-> 0]
        ELSE IF AllDigits(t) THEN [nan |-> FALSE, n |-> DigitsToNat(t)]
        ELSE IF Head(t) = "-" /\ AllDigits(Tail(t))
             THEN [nan |-> FALSE, n |-> 0 - DigitsToNat(Tail(t))]
        ELSE IF Head(t) = "+" /\ AllDigits(Tail(t))
             THEN [nan |-> FALSE, n |-> DigitsToNat(Tail(t))]
        ELSE [nan |-> TRUE, n |-> 0]

ObjectObjectChars ==
    <<"[", "o", "b", "j", "e", "c", "t", " ", "O", "b", "j", "e", "c", "t", "]">>

\* String(value) of a non-null value
JsString(v) ==
    CASE v.t = "string" -> v.s
      [] v.t = "number" -> IntToChars(v.n)
      [] v.t = "boolean" -> IF v.n = 1 THEN <<"t", "r", "u", "e">>
                            ELSE <<"f", "a", "l", "s", "e">>
      [] v.t = "array" -> v.s
      [] v.t = "object" -> ObjectObjectChars
      [] v.t = "undefined" -> <<"u", "n", "d", "e", "f", "i", "n", "e", "d">>
      [] OTHER -> <<"n", "u", "l", "l">>

\* Number(value) of a non-number value
JsNumber(v) ==
    CASE v.t = "string" -> StringToNumber(v.s)
      [] v.t = "boolean" -> [nan |-> FALSE, n |-> v.n]
      [] v.t = "array" -> StringToNumber(v.s)
      [] v.t = "object" -> [nan |-> TRUE, n |-> 0]
      [] v.t = "undefined" -> [nan |-> TRUE, n |-> 0]
      [] OTHER -> [nan |-> FALSE, n |-> 0]

(***************************************************************************)
(* Validation results and validators (validators.ts).                       *)
(***************************************************************************)
\* an error message: its fixed text, the number and the list spliced into it
Msg(text, num, list) == [text |-> text, num |-> num, list |-> list]

NoMsg == Msg("", 0, <<>>)

Valid == [valid |-> TRUE, error |-> NoMsg]

Invalid(msg) == [valid |-> FALSE, error |-> msg]

\* no result yet
NoValidationResult == Invalid(NoMsg)

MIN_PHONE_DIGITS == 10

\* [^\s@]
IsEmailChar(c) == ~IsSpace(c) /\ c # "@"

\* EMAIL_REGEX = /^[^\s@]+@[^\s@]+\.[^\s@]+$/
EMAIL_REGEX(chars) ==
    \E at \in 1..Len(chars) : \E dot \in 1..Len(chars) :
        /\ chars[at] = "@"
        /\ chars[dot] = "."
        /\ 1 < at
        /\ at + 1 < dot
        /\ dot < Len(chars)
        /\ \A i \in 1..Len(chars) : i # at => IsEmailChar(chars[i])

\* PHONE_REGEX = /^[\d\s+\-()]+$/
PHONE_REGEX(chars) ==
    /\ chars # <<>>
    /\ \A i \in 1..Len(chars) :
          IsDigit(chars[i]) \/ IsSpace(chars[i]) \/ chars[i] \in {"+", "-", "(", ")"}

validateEmail(value) ==
    IF value = <<>> \/ Trim(value) = <<>>
    THEN Invalid(Msg("Invalid email format", 0, <<>>))
    ELSE IF ~EMAIL_REGEX(value)
    THEN Invalid(Msg("Invalid email format", 0, <<>>))
    ELSE Valid

validatePhone(value) ==
    IF value = <<>> \/ Trim(value) = <<>>
    THEN Invalid(Msg("Invalid phone format", 0, <<>>))
    ELSE LET digitsOnly == SelectSeq(value, IsDigit)
         IN  IF Len(digitsOnly) < MIN_PHONE_DIGITS
             THEN Invalid(Msg("Invalid phone format", 0, <<>>))
             ELSE IF ~PHONE_REGEX(value)
             THEN Invalid(Msg("Invalid phone format", 0, <<>>))
             ELSE Valid

\* mutant: the upper bound is checked before the lower one
validateNumber_MaxFirst(value, rules) ==
    IF rules.hasMax /\ ~value.nan /\ value.n > rules.max
    THEN Invalid(Msg("Number must be at most ", rules.max, <<>>))
    ELSE IF rules.hasMin /\ ~value.nan /\ value.n < rules.min
    THEN Invalid(Msg("Number must be at least ", rules.min, <<>>))
    ELSE Valid

\* value: [nan, n]; rules: [hasMin, min, hasMax, max].  A comparison with NaN
\* is false.
validateNumber(value, rules) ==
    IF rules.hasMin /\ ~value.nan /\ value.n < rules.min
    THEN Invalid(Msg("Number must be at least ", rules.min, <<>>))
    ELSE IF rules.hasMax /\ ~value.nan /\ value.n > rules.max
    THEN Invalid(Msg("Number must be at most ", rules.max, <<>>))
    ELSE Valid

(***************************************************************************)
(* Dates.  new Date(string) reads the ISO forms YYYY, YYYY-MM and           *)
(* YYYY-MM-DD, alone (midnight UTC) or followed by THH:mm, THH:mm:ss or     *)
(* THH:mm:ss.s+ and then by Z, +HH:mm, -HH:mm or nothing (host time).  The  *)
(* engine takes a day of the month up to 31 in every month and carries it   *)
(* into the next month.  A string of no ISO form goes to the engine's        *)
(* fallback parser, whose reading of it is implementation-defined: no date  *)
(* or any date.                                                             *)
(* A parsed date is the record [nan, year, month, day] of its UTC calendar  *)
(* day, which is all the validator reads of it.                             *)
(***************************************************************************)
NoDate == [nan |-> TRUE, year |-> 0, month |-> 0, day |-> 0]

UtcDate(y, m, d) == [nan |-> FALSE, year |-> y, month |-> m, day |-> d]

IsLeapYear(y) == (y % 4 = 0 /\ y % 100 # 0) \/ y % 400 = 0

DaysInMonth(y, m) ==
    IF m = 2 THEN (IF IsLeapYear(y) THEN 29 ELSE 28)
    ELSE IF m \in {4, 6, 9, 11} THEN 30
    ELSE 31

\* a day of the month past the month's end runs into the next month
MakeDay(y, m, d) ==
    IF d <= DaysInMonth(y, m) THEN UtcDate(y, m, d)
    ELSE IF m < 12 THEN UtcDate(y, m + 1, d - DaysInMonth(y, m))
    ELSE UtcDate(y + 1, 1, d - DaysInMonth(y, m))

NextDay(date) ==
    IF date.day < DaysInMonth(date.year, date.month)
    THEN UtcDate(date.year, date.month, date.day + 1)
    ELSE IF date.month < 12 THEN UtcDate(date.year, date.month + 1, 1)
    ELSE UtcDate(date.year + 1, 1, 1)

PrevDay(date) ==
    IF date.day > 1 THEN UtcDate(date.year, date.month, date.day - 1)
    ELSE IF date.month > 1
    THEN UtcDate(date.year, date.month - 1, DaysInMonth(date.year, date.month - 1))
    ELSE UtcDate(date.year - 1, 12, 31)

CharAt(chars, i) == IF i \in 1..Len(chars) THEN chars[i] ELSE ""

\* the number written at positions i..j, -1 when they are not all digits
NumAt(chars, i, j) ==
    IF j <= Len(chars) /\ \A k \in i..j : IsDigit(chars[k])
    THEN DigitsToNat(SubSeq(chars, i, j))
    ELSE -1

\* the last position of the run of digits that starts at i, i - 1 when none
DigitRunEnd(chars, i) ==
    CHOOSE j \in (i - 1)..Len(chars) :
        /\ \A k \in i..j : IsDigit(chars[k])
        /\ j = Len(chars) \/ ~IsDigit(chars[j + 1])

\* the time and zone after the date: [ok, minutes, zone, offset], minutes the
\* time of day and offset the zone's minutes east of UTC
ParseIsoTime(rest) ==
    LET hh == NumAt(rest, 2, 3)
        mm == NumAt(rest, 5, 6)
        hasSec == CharAt(rest, 7) = ":"
        ss == IF hasSec THEN NumAt(rest, 8, 9) ELSE 0
        afterSec == IF hasSec THEN 10 ELSE 7
        hasMs == hasSec /\ CharAt(rest, afterSec) = "."
        msEnd == IF hasMs THEN DigitRunEnd(rest, afterSec + 1) ELSE afterSec - 1
        msDigits == SubSeq(rest, afterSec + 1, msEnd)
        zoneChars == SubSeq(rest, msEnd + 1, Len(rest))
        oh == NumAt(zoneChars, 2, 3)
        om == NumAt(zoneChars, 5, 6)
        isOffset == /\ Len(zoneChars) = 6
                    /\ zoneChars[1] \in {"+", "-"}
                    /\ zoneChars[4] = ":"
                    /\ oh \in 0..23
                    /\ om \in 0..59
        ok == /\ CharAt(rest, 1) = "T"
              /\ hh \in 0..24
              /\ CharAt(rest, 4) = ":"
              /\ mm \in 0..59
              /\ ss \in 0..59
              /\ hasMs => msDigits # <<>>
              /\ hh = 24 => mm = 0 /\ ss = 0 /\ \A k \in 1..Len(msDigits) : msDigits[k] = "0"
              /\ zoneChars = <<>> \/ zoneChars = <<"Z">> \/ isOffset
    IN  IF ~ok THEN [ok |-> FALSE, minutes |-> 0, zone |-> "none", offset |-> 0]
        ELSE [ok |-> TRUE,
              minutes |-> hh * 60 + mm,
              zone |-> IF zoneChars = <<>> THEN "host"
                       ELSE IF zoneChars = <<"Z">> THEN "utc" ELSE "offset",
              offset |-> IF ~isOffset THEN 0
                         ELSE IF zoneChars[1] = "-" THEN 0 - (oh * 60 + om)
                         ELSE oh * 60 + om]

\* new Date(chars) on a host that is host minutes east of UTC and whose
\* fallback parser makes legacy of chars
ParseDate(chars, host, legacy) ==
    LET y == NumAt(chars, 1, 4)
        hasMonth == CharAt(chars, 5) = "-"
        mo == IF hasMonth THEN NumAt(chars, 6, 7) ELSE 1
        hasDay == hasMonth /\ CharAt(chars, 8) = "-"
        d == IF hasDay THEN NumAt(chars, 9, 10) ELSE 1
        dateEnd == IF hasDay THEN 10 ELSE IF hasMonth THEN 7 ELSE 4
        rest == SubSeq(chars, dateEnd + 1, Len(chars))
        time == ParseIsoTime(rest)
        utcMinutes == time.minutes - (IF time.zone = "host" THEN host ELSE time.offset)
        local == MakeDay(y, mo, d)
    IN  IF y < 0 \/ mo \notin 1..12 \/ d \notin 1..31 THEN legacy
        ELSE IF rest = <<>> THEN local
        ELSE IF ~time.ok THEN legacy
        ELSE IF utcMinutes < 0 THEN PrevDay(local)
        ELSE IF utcMinutes >= 24 * 60 THEN NextDay(local)
        ELSE local

\* String.prototype.split(sep) for a one-character separator
RECURSIVE Split(_, _)
Split(chars, sep) ==
    IF \A i \in 1..Len(chars) : chars[i] # sep THEN <<chars>>
    ELSE LET i == CHOOSE k \in 1..Len(chars) :
                      chars[k] = sep /\ \A j \in 1..(k - 1) : chars[j] # sep
         IN  <<SubSeq(chars, 1, i - 1)>> \o Split(SubSeq(chars, i + 1, Len(chars)), sep)

\* parseInt(chars, 10): [nan, n]
ParseInt(chars) ==
    LET t == TrimLeft(chars)
        signed == t # <<>> /\ Head(t) \in {"+", "-"}
        body == IF signed THEN Tail(t) ELSE t
        e == DigitRunEnd(body, 1)
        k == DigitsToNat(SubSeq(body, 1, e))
    IN  IF e = 0 THEN [nan |-> TRUE, n |-> 0]
        ELSE [nan |-> FALSE, n |-> IF Head(t) = "-" THEN 0 - k ELSE k]

validateIsoDateParts(dateString, dateObj) ==
    LET datePart == Head(Split(dateString, "T"))
        parts == Split(datePart, "-")
        year == ParseInt(parts[1])
        month == ParseInt(parts[2])
        day == ParseInt(parts[3])
    IN  IF datePart = <<>> THEN Invalid(Msg("Invalid date format", 0, <<>>))
        ELSE IF Len(parts) < 3 \/ parts[1] = <<>> \/ parts[2] = <<>> \/ parts[3] = <<>>
        THEN Invalid(Msg("Invalid date format", 0, <<>>))
        ELSE IF \/ year.nan \/ dateObj.year # year.n
                \/ month.nan \/ dateObj.month # month.n
                \/ day.nan \/ dateObj.day # day.n
        THEN Invalid(Msg("Invalid date format", 0, <<>>))
        ELSE Valid

\* /^\d{4}-\d{2}-\d{2}/
isoFormat(chars) ==
    /\ NumAt(chars, 1, 4) >= 0
    /\ CharAt(chars, 5) = "-"
    /\ NumAt(chars, 6, 7) >= 0
    /\ CharAt(chars, 8) = "-"
    /\ NumAt(chars, 9, 10) >= 0

\* mutant: the parts written in the string are not compared with the date
validateDate_NoPartsCheck(value) ==
    IF value = <<>> \/ Trim(value) = <<>>
    THEN Invalid(Msg("Invalid date format", 0, <<>>))
    ELSE LET dateObj == ParseDate(value, hostOffset, legacyDate)
         IN  IF dateObj.nan THEN Invalid(Msg("Invalid date format", 0, <<>>))
             ELSE Valid

\* value: the characters of a string
validateDate(value) ==
    IF value = <<>> \/ Trim(value) = <<>>
    THEN Invalid(Msg("Invalid date format", 0, <<>>))
    ELSE LET dateObj == ParseDate(value, hostOffset, legacyDate)
         IN  IF dateObj.nan THEN Invalid(Msg("Invalid date format", 0, <<>>))
             ELSE IF isoFormat(value) THEN validateIsoDateParts(value, dateObj)
             ELSE Valid

\* options.includes(value)
validateEnum(value, options) ==
    IF ~(\E i \in 1..Len(options) : options[i] = value)
    THEN Invalid(Msg("Value must be one of: ", 0, options))
    ELSE Valid

(***************************************************************************)
(* The validation dispatcher (validate-field.ts).  A field is a record      *)
(* [id, name, type, required, order, validation], validation a record       *)
(* [hasMin, min, hasMax, max, hasOptions, options].                         *)
(***************************************************************************)
\* mutant: only null counts as absent
checkRequired_NullOnly(field, value) ==
    LET isNull == value.t = "null"
    IN  IF field.required /\ isNull
        THEN [decided |-> TRUE, result |-> Invalid(Msg("Field is required", 0, <<>>))]
        ELSE IF ~field.required /\ isNull
        THEN [decided |-> TRUE, result |-> Valid]
        ELSE [decided |-> FALSE, result |-> Valid]

\* null when the type-specific validation is to continue
checkRequired(field, value) ==
    LET isNull == value.t = "null" \/ value.t = "undefined"
    IN  IF field.required /\ isNull
        THEN [decided |-> TRUE, result |-> Invalid(Msg("Field is required", 0, <<>>))]
        ELSE IF ~field.required /\ isNull
        THEN [decided |-> TRUE, result |-> Valid]
        ELSE [decided |-> FALSE, result |-> Valid]

validateNumberField(value, validation) ==
    LET numValue == IF value.t = "number" THEN [nan |-> FALSE, n |-> value.n]
                    ELSE JsNumber(value)
    IN  validateNumber(numValue,
                       [hasMin |-> validation.hasMin, min |-> validation.min,
                        hasMax |-> validation.hasMax, max |-> validation.max])

\* a reply is JSON and holds no Date object: a date arrives as a string
validateDateField(value) ==
    IF value.t = "string" THEN validateDate(value.s)
    ELSE Invalid(Msg("Invalid date format", 0, <<>>))

validateEnumField(value, validation) ==
    LET strValue == JsString(value)
        options == IF validation.hasOptions THEN validation.options ELSE <<>>
    IN  validateEnum(strValue, options)

validateField(field, value) ==
    LET requiredResult == checkRequired(field, value)
    IN  IF requiredResult.decided THEN requiredResult.result
        ELSE CASE field.type = "EMAIL" -> validateEmail(JsString(value))
               [] field.type = "PHONE" -> validatePhone(JsString(value))
               [] field.type = "NUMBER" -> validateNumberField(value, field.validation)
               [] field.type = "DATE" -> validateDateField(value)
               [] field.type = "ENUM" -> validateEnumField(value, field.validation)
               [] field.type \in {"TEXT", "LONG_TEXT"} -> Valid

(***************************************************************************)
(* Forms, sessions and replies the model draws its inputs from.             *)
(***************************************************************************)
NoValidation ==
    [hasMin |-> FALSE, min |-> 0, hasMax |-> FALSE, max |-> 0,
     hasOptions |-> FALSE, options |-> <<>>]

Field(id, name, type, required, order, validation) ==
    [id |-> id, name |-> name, type |-> type, required |-> required,
     order |-> order, validation |-> validation]

AgeMin == 18

AgeMax == 120

\* the fields of the README's contact form and the age field of its survey
\* form; name and age share display order 0
FieldPool ==
    { Field("field_001", "name", "TEXT", TRUE, 0, NoValidation),
      Field("field_002", "email", "EMAIL", TRUE, 1, NoValidation),
      Field("field_003", "phone", "PHONE", FALSE, 2, NoValidation),
      Field("field_004", "age", "NUMBER", TRUE, 0,
            [NoValidation EXCEPT !.hasMin = TRUE, !.min = AgeMin,
                                 !.hasMax = TRUE, !.max = AgeMax]) }

\* sequences of at most n distinct elements of S
InjectiveSeqs(S, n) ==
    UNION { { q \in [1..k -> S] : \A i, j \in 1..k : i # j => q[i] # q[j] }
            : k \in 0..n }

FormId == "form-1"

\* every declaration order of at most MaxFields fields of the pool
Forms == { [id |-> FormId, fields |-> fs] : fs \in InjectiveSeqs(FieldPool, MaxFields) }

EmailChars == <<"a", "@", "b", ".", "c">>

\* ten digits; as a number it stays below 2^31
PhoneChars == <<"1", "2", "3", "4", "5", "6", "7", "8", "9", "0">>

\* the values a reply proposes for a field
Values ==
    { VNull, VStr(EmailChars), VStr(PhoneChars), VNum(25) }

\* the keys a reply uses: the names of the pool and one name of no field
Keys == { f.name : f \in FieldPool } \cup { "unknown" }

Entry(name, value) == [name |-> name, value |-> value]

\* the mappings of at most MaxKeys keys, in key order
Mappings ==
    { q \in UNION { [1..k -> { Entry(nm, v) : nm \in Keys, v \in Values }] : k \in 0..MaxKeys } :
        \A i, j \in 1..Len(q) : i # j => q[i].name # q[j].name }

\* a JSON value in the place of extractedFields: a value, with its entries when
\* it is a mapping
Ef(v, entries) == [t |-> v.t, s |-> v.s, n |-> v.n, entries |-> entries]

EfValues ==
    { Ef(VNull, <<>>), Ef(VNum(5), <<>>), Ef(VBool(TRUE), <<>>),
      Ef(VStr(<<>>), <<>>), Ef(VStr(<<"h", "i">>), <<>>),
      Ef(VArr(0, <<>>), <<>>), Ef(VArr(1, <<"x">>), <<>>) }
    \cup { Ef(VObj, m) : m \in Mappings }

OkChars == <<"o", "k">>

\* the text of a reply, described by what JSON.parse makes of it: json is
\* whether it parses, top the kind of the parsed value, and for an object
\* whether it has each key and the values under them
Reply(json, top, hasBot, bot, hasEf, ef) ==
    [json |-> json, top |-> top, hasBotResponse |-> hasBot, botResponse |-> bot,
     hasExtractedFields |-> hasEf, extractedFields |-> ef]

Replies ==
    { Reply(FALSE, "text", FALSE, VNull, FALSE, Ef(VNull, <<>>)) }
    \cup { Reply(TRUE, top, FALSE, VNull, FALSE, Ef(VNull, <<>>))
             : top \in {"null", "scalar", "array"} }
    \cup { Reply(TRUE, "object", hb, IF hb THEN VStr(OkChars) ELSE VNull,
                 FALSE, Ef(VNull, <<>>)) : hb \in BOOLEAN }
    \cup { Reply(TRUE, "object", FALSE, VNull, TRUE, Ef(VObj, <<>>)) }
    \cup { Reply(TRUE, "object", TRUE, VStr(OkChars), TRUE, ef) : ef \in EfValues }

UserMessage == VStr(<<"h", "i">>)

(***************************************************************************)
(* Sessions (SessionStatus, SessionTurn, SessionField, Session).  The       *)
(* timestamps of turns and collected fields are left out: no operation      *)
(* reads them.                                                              *)
(***************************************************************************)
SessionStatus == {"ACTIVE", "COMPLETED", "ABANDONED"}

Turn(role, content) == [role |-> role, content |-> content]

SessionField(fieldId, value) == [fieldId |-> fieldId, value |-> value]

EmptySession ==
    [id |-> "session-1", formId |-> FormId, status |-> "ACTIVE",
     turns |-> <<>>, fields |-> <<>>]

\* array.map(f)
Map(q, F(_)) == [i \in 1..Len(q) |-> F(q[i])]

\* new Set(array) of the ids or names of an array
SetOf(q) == { q[i] : i \in 1..Len(q) }

(***************************************************************************)
(* determineNextField (orchestrator.ts).                                    *)
(***************************************************************************)
\* insert field x into the sorted sequence q, after the elements that do not
\* compare greater (Array.prototype.sort is stable)
RECURSIVE InsertByOrder(_, _)
InsertByOrder(q, x) ==
    IF q = <<>> THEN <<x>>
    ELSE IF q[Len(q)].order - x.order > 0
    THEN Append(InsertByOrder(SubSeq(q, 1, Len(q) - 1), x), q[Len(q)])
    ELSE Append(q, x)

\* mutant: the fields are scanned in declaration order, unsorted
SortByOrder_Unsorted(fields) == fields

\* [...fields].sort((a, b) => a.order - b.order)
RECURSIVE SortByOrder(_)
SortByOrder(fields) ==
    IF fields = <<>> THEN <<>>
    ELSE InsertByOrder(SortByOrder(SubSeq(fields, 1, Len(fields) - 1)),
                       fields[Len(fields)])

\* mutant: the loop gives up after the first field in display order
determineNextField_FirstOnly(f, sess) ==
    LET collectedFieldIds == SetOf(Map(sess.fields, LAMBDA sf : sf.fieldId))
        sortedFields == SortByOrder(f.fields)
    IN  IF /\ sortedFields # <<>>
           /\ sortedFields[1].required
           /\ sortedFields[1].id \notin collectedFieldIds
        THEN sortedFields[1].name
        ELSE Null

determineNextField(f, sess) ==
    LET collectedFieldIds == SetOf(Map(sess.fields, LAMBDA sf : sf.fieldId))
        sortedFields == SortByOrder(f.fields)
        missing == { i \in 1..Len(sortedFields) :
                       sortedFields[i].required
                       /\ sortedFields[i].id \notin collectedFieldIds }
    IN  IF missing = {} THEN Null
        ELSE sortedFields[CHOOSE i \in missing : \A j \in missing : i <= j].name

(***************************************************************************)
(* buildSystemPrompt and buildConversationHistory.  A message is a record   *)
(* [role, content, prompt]; the system prompt is kept as the lines it       *)
(* renders, one per field and one per collected field.                      *)
(***************************************************************************)
NoPrompt == [fieldsInfo |-> <<>>, collectedInfo |-> <<>>]

LlmMessage(role, content, prompt) ==
    [role |-> role, content |-> content, prompt |-> prompt]

buildSystemPrompt(f, sess) ==
    [fieldsInfo |-> Map(f.fields, LAMBDA fd :
                        [name |-> fd.name, type |-> fd.type, required |-> fd.required]),
     collectedInfo |-> Map(sess.fields, LAMBDA sf :
                        [fieldId |-> sf.fieldId, text |-> JsString(sf.value)])]

\* mutant: the turns are replayed newest first
buildConversationHistory_NewestFirst(sess) ==
    [i \in 1..Len(sess.turns) |->
        LET turn == sess.turns[Len(sess.turns) + 1 - i]
        IN  LlmMessage(IF turn.role = "USER" THEN "user" ELSE "assistant",
                       turn.content, NoPrompt)]

buildConversationHistory(sess) ==
    Map(sess.turns, LAMBDA turn :
        LlmMessage(IF turn.role = "USER" THEN "user" ELSE "assistant",
                   turn.content, NoPrompt))

\* the messages array of runLlmStep
BuildMessages(f, sess, userMessage) ==
    <<LlmMessage("system", VNull, buildSystemPrompt(f, sess))>>
    \o buildConversationHistory(sess)
    \o <<LlmMessage("user", userMessage, NoPrompt)>>

(***************************************************************************)
(* Errors (ClientError) and the outcome of one invocation of runLlmStep.    *)
(***************************************************************************)
NoReply == Reply(FALSE, "none", FALSE, VNull, FALSE, Ef(VNull, <<>>))

\* the context of an error: the keys it carries and their values
Context(keys, fieldName, value, formId, response) ==
    [keys |-> keys, fieldName |-> fieldName, value |-> value, formId |-> formId,
     response |-> response]

NoContext == Context({}, "", VNull, "", NoReply)

ClientError(message, statusCode, errorCode, context) ==
    [class |-> "ClientError", message |-> message, statusCode |-> statusCode,
     errorCode |-> errorCode, context |-> context]

\* what Object.keys(null) throws
TypeError ==
    [class |-> "TypeError", message |-> Msg("Cannot convert undefined or null to object", 0, <<>>),
     statusCode |-> 0, errorCode |-> "", context |-> NoContext]

\* the failure of the model client itself
LlmError ==
    [class |-> "LlmError", message |-> Msg("llm client failed", 0, <<>>),
     statusCode |-> 0, errorCode |-> "", context |-> NoContext]

\* another failure of the model client
LlmRateLimited ==
    [class |-> "LlmError", message |-> Msg("llm client rate limited", 0, <<>>),
     statusCode |-> 0, errorCode |-> "", context |-> NoContext]

\* what llmClient.complete rejects with when it fails
LlmFailures == {LlmError, LlmRateLimited}

NoError ==
    [class |-> "", message |-> NoMsg, statusCode |-> 0, errorCode |-> "",
     context |-> NoContext]

OrchestratorResult(botResponse, extractedFields, isComplete, nextField) ==
    [botResponse |-> botResponse, extractedFields |-> extractedFields,
     isComplete |-> isComplete, nextField |-> nextField]

NoResult == OrchestratorResult(VNull, Ef(VNull, <<>>), FALSE, Undefined)

Returned(result) == [kind |-> "result", result |-> result, error |-> NoError]

Thrown(error) == [kind |-> "error", result |-> NoResult, error |-> error]

NoOutcome == [kind |-> "none", result |-> NoResult, error |-> NoError]

(***************************************************************************)
(* parseExtractedFields, isFormComplete and runLlmStep (orchestrator.ts).   *)
(***************************************************************************)
\* the index keys "0", "1", ... of a string or an array of n elements
IndexKeys(n) == [i \in 1..n |-> ToString(i - 1)]

\* Object.keys(ef) of a value that is not null
ObjectKeys(ef) ==
    CASE ef.t = "object" -> Map(ef.entries, LAMBDA e : e.name)
      [] ef.t = "string" -> IndexKeys(Len(ef.s))
      [] ef.t = "array" -> IndexKeys(ef.n)
      [] OTHER -> <<>>

\* Object.entries(ef) of a value that is not null; the arrays of the model
\* hold at most one item, a string
ObjectEntries(ef) ==
    CASE ef.t = "object" -> ef.entries
      [] ef.t = "string" -> [i \in 1..Len(ef.s) |-> Entry(ToString(i - 1), VStr(<<ef.s[i]>>))]
      [] ef.t = "array" -> [i \in 1..ef.n |-> Entry(ToString(i - 1), VStr(ef.s))]
      [] OTHER -> <<>>

\* the first index of q whose element satisfies P, 0 when there is none
FirstIndex(q, P(_)) ==
    IF \E i \in 1..Len(q) : P(q[i])
    THEN CHOOSE i \in 1..Len(q) : P(q[i]) /\ \A j \in 1..(i - 1) : ~P(q[j])
    ELSE 0

\* mutant: the keys are looked up among the ids of the fields, not their names
parseExtractedFields_ById(llmResponse, f) ==
    IF ~llmResponse.json
    THEN Thrown(ClientError(Msg("LLM returned invalid JSON", 0, <<>>), 400,
                            "INVALID_LLM_RESPONSE",
                            Context({"response", "parseError"}, "", VNull, "", llmResponse)))
    ELSE IF \/ llmResponse.top # "object"
            \/ ~llmResponse.hasBotResponse
            \/ ~llmResponse.hasExtractedFields
    THEN Thrown(ClientError(
                  Msg("LLM response missing required fields (botResponse, extractedFields)",
                      0, <<>>),
                  400, "INVALID_LLM_RESPONSE",
                  Context({"response"}, "", VNull, "", llmResponse)))
    ELSE IF llmResponse.extractedFields.t = "null"
    THEN Thrown(TypeError)
    ELSE LET validFieldNames == SetOf(Map(f.fields, LAMBDA fd : fd.id))
             keys == ObjectKeys(llmResponse.extractedFields)
             bad == FirstIndex(keys, LAMBDA fieldName : fieldName \notin validFieldNames)
         IN  IF bad # 0
             THEN Thrown(ClientError(Msg("Field not in form definition", 0, <<>>), 400,
                                     "UNKNOWN_FIELD",
                                     Context({"fieldName", "formId"}, keys[bad], VNull,
                                             f.id, NoReply)))
             ELSE Returned(OrchestratorResult(llmResponse.botResponse,
                                              llmResponse.extractedFields, FALSE, Undefined))

parseExtractedFields(llmResponse, f) ==
    IF ~llmResponse.json
    THEN Thrown(ClientError(Msg("LLM returned invalid JSON", 0, <<>>), 400,
                            "INVALID_LLM_RESPONSE",
                            Context({"response", "parseError"}, "", VNull, "", llmResponse)))
    ELSE IF \/ llmResponse.top # "object"
            \/ ~llmResponse.hasBotResponse
            \/ ~llmResponse.hasExtractedFields
    THEN Thrown(ClientError(
                  Msg("LLM response missing required fields (botResponse, extractedFields)",
                      0, <<>>),
                  400, "INVALID_LLM_RESPONSE",
                  Context({"response"}, "", VNull, "", llmResponse)))
    ELSE IF llmResponse.extractedFields.t = "null"
    THEN Thrown(TypeError)
    ELSE LET validFieldNames == SetOf(Map(f.fields, LAMBDA fd : fd.name))
             keys == ObjectKeys(llmResponse.extractedFields)
             bad == FirstIndex(keys, LAMBDA fieldName : fieldName \notin validFieldNames)
         IN  IF bad # 0
             THEN Thrown(ClientError(Msg("Field not in form definition", 0, <<>>), 400,
                                     "UNKNOWN_FIELD",
                                     Context({"fieldName", "formId"}, keys[bad], VNull,
                                             f.id, NoReply)))
             ELSE Returned(OrchestratorResult(llmResponse.botResponse,
                                              llmResponse.extractedFields, FALSE, Undefined))

\* form.fields.find((f) => f.name === name): the index of the first field of
\* that name, 0 for undefined
FindByName(f, name) == FirstIndex(f.fields, LAMBDA fd : fd.name = name)

\* new Map(form.fields.map((f) => [f.name, f])).get(name): the last field of
\* that name
fieldMapGet(f, name) ==
    f.fields[CHOOSE i \in 1..Len(f.fields) :
                /\ f.fields[i].name = name
                /\ \A j \in (i + 1)..Len(f.fields) : f.fields[j].name # name]

\* mutant: the ids the session already holds are left out of the union
isFormComplete_NewOnly(f, sess, extractedFields) ==
    LET keys == ObjectKeys(extractedFields)
        newFieldIds == { f.fields[FindByName(f, keys[i])].id :
                           i \in { k \in 1..Len(keys) : FindByName(f, keys[k]) # 0 } }
        requiredFields == SelectSeq(f.fields, LAMBDA fd : fd.required)
    IN  \A i \in 1..Len(requiredFields) : requiredFields[i].id \in newFieldIds

\* mutant: every field counts, required or not
isFormComplete_AllFields(f, sess, extractedFields) ==
    LET existingFieldIds == SetOf(Map(sess.fields, LAMBDA sf : sf.fieldId))
        keys == ObjectKeys(extractedFields)
        newFieldIds == { f.fields[FindByName(f, keys[i])].id :
                           i \in { k \in 1..Len(keys) : FindByName(f, keys[k]) # 0 } }
        allCollectedFieldIds == existingFieldIds \cup newFieldIds
    IN  \A i \in 1..Len(f.fields) : f.fields[i].id \in allCollectedFieldIds

isFormComplete(f, sess, extractedFields) ==
    LET existingFieldIds == SetOf(Map(sess.fields, LAMBDA sf : sf.fieldId))
        keys == ObjectKeys(extractedFields)
        newFieldIds == { f.fields[FindByName(f, keys[i])].id :
                           i \in { k \in 1..Len(keys) : FindByName(f, keys[k]) # 0 } }
        allCollectedFieldIds == existingFieldIds \cup newFieldIds
        requiredFields == SelectSeq(f.fields, LAMBDA fd : fd.required)
    IN  \A i \in 1..Len(requiredFields) : requiredFields[i].id \in allCollectedFieldIds

\* the session runLlmStep hands to determineNextField
hypotheticalSession(f, sess, extractedFields) ==
    [sess EXCEPT !.fields =
        @ \o Map(ObjectEntries(extractedFields), LAMBDA e :
                 SessionField(f.fields[FindByName(f, e.name)].id, e.value))]

\* mutant: the next field is determined from the session as it was before the
\* turn, without the fields the turn extracted
nextFieldOf_BeforeTurn(f, sess, extractedFields) ==
    LET next == determineNextField(f, sess)
    IN  IF next = Null THEN Undefined ELSE next

\* determineNextField(form, hypotheticalSession) ?? undefined
nextFieldOf(f, sess, extractedFields) ==
    LET next == determineNextField(f, hypotheticalSession(f, sess, extractedFields))
    IN  IF next = Null THEN Undefined ELSE next

\* the last index of q whose element satisfies P, 0 when there is none
LastIndex(q, P(_)) ==
    IF \E i \in 1..Len(q) : P(q[i])
    THEN CHOOSE i \in 1..Len(q) : P(q[i]) /\ \A j \in (i + 1)..Len(q) : ~P(q[j])
    ELSE 0

\* mutant: every value is validated and the last failure is the one reported
runLlmStep_LastFailure(f, sess, llmResponse) ==
    LET parsed == parseExtractedFields(llmResponse, f)
    IN  IF parsed.kind = "error" THEN parsed
        ELSE LET botResponse == parsed.result.botResponse
                 extractedFields == parsed.result.extractedFields
                 entries == ObjectEntries(extractedFields)
                 failed == LastIndex(entries, LAMBDA e :
                               ~validateField(fieldMapGet(f, e.name), e.value).valid)
             IN  IF failed # 0
                 THEN Thrown(ClientError(
                        validateField(fieldMapGet(f, entries[failed].name),
                                      entries[failed].value).error,
                        400, "VALIDATION_ERROR",
                        Context({"fieldName", "value", "formId"}, entries[failed].name,
                                entries[failed].value, f.id, NoReply)))
                 ELSE LET complete == isFormComplete(f, sess, extractedFields)
                          nextField == IF complete THEN Undefined
                                       ELSE nextFieldOf(f, sess, extractedFields)
                      IN  Returned(OrchestratorResult(botResponse, extractedFields,
                                                      complete, nextField))

\* mutant: one loop over the keys, which checks that a key names a field and
\* validates its value before it goes on to the next key
runLlmStep_ValidatesKeyByKey(f, sess, llmResponse) ==
    LET parsed == parseExtractedFields(llmResponse, f)
    IN  IF parsed.kind = "error" /\ parsed.error.errorCode # "UNKNOWN_FIELD" THEN parsed
        ELSE LET botResponse == llmResponse.botResponse
                 extractedFields == llmResponse.extractedFields
                 entries == ObjectEntries(extractedFields)
                 validFieldNames == SetOf(Map(f.fields, LAMBDA fd : fd.name))
                 failed == FirstIndex(entries, LAMBDA e :
                               \/ e.name \notin validFieldNames
                               \/ ~validateField(fieldMapGet(f, e.name), e.value).valid)
             IN  IF failed # 0 /\ entries[failed].name \notin validFieldNames
                 THEN Thrown(ClientError(Msg("Field not in form definition", 0, <<>>), 400,
                                         "UNKNOWN_FIELD",
                                         Context({"fieldName", "formId"},
                                                 entries[failed].name, VNull, f.id,
                                                 NoReply)))
                 ELSE IF failed # 0
                 THEN Thrown(ClientError(
                        validateField(fieldMapGet(f, entries[failed].name),
                                      entries[failed].value).error,
                        400, "VALIDATION_ERROR",
                        Context({"fieldName", "value", "formId"}, entries[failed].name,
                                entries[failed].value, f.id, NoReply)))
                 ELSE LET complete == isFormComplete(f, sess, extractedFields)
                          nextField == IF complete THEN Undefined
                                       ELSE nextFieldOf(f, sess, extractedFields)
                      IN  Returned(OrchestratorResult(botResponse, extractedFields,
                                                      complete, nextField))

\* runLlmStep from the return of llmClient.complete to its own return
runLlmStep(f, sess, llmResponse) ==
    LET parsed == parseExtractedFields(llmResponse, f)
    IN  IF parsed.kind = "error" THEN parsed
        ELSE LET botResponse == parsed.result.botResponse
                 extractedFields == parsed.result.extractedFields
                 entries == ObjectEntries(extractedFields)
                 failed == FirstIndex(entries, LAMBDA e :
                               ~validateField(fieldMapGet(f, e.name), e.value).valid)
             IN  IF failed # 0
                 THEN Thrown(ClientError(
                        validateField(fieldMapGet(f, entries[failed].name),
                                      entries[failed].value).error,
                        400, "VALIDATION_ERROR",
                        Context({"fieldName", "value", "formId"}, entries[failed].name,
                                entries[failed].value, f.id, NoReply)))
                 ELSE LET complete == isFormComplete(f, sess, extractedFields)
                          nextField == IF complete THEN Undefined
                                       ELSE nextFieldOf(f, sess, extractedFields)
                      IN  Returned(OrchestratorResult(botResponse, extractedFields,
                                                      complete, nextField))

(***************************************************************************)
(* The caller's update of the session after a turn (core README, Session    *)
(* Management).                                                             *)
(***************************************************************************)
\* mutant: the collected field records the field's name as its fieldId
CallerNextSession_ByName(f, sess, userMessage, result) ==
    LET appended ==
          [sess EXCEPT
             !.turns = @ \o <<Turn("USER", userMessage),
                              Turn("ASSISTANT", result.botResponse)>>,
             !.fields = @ \o Map(ObjectEntries(result.extractedFields), LAMBDA e :
                               SessionField(e.name, e.value))]
    IN  IF result.isComplete THEN [appended EXCEPT !.status = "COMPLETED"]
        ELSE appended

\* mutant: on completion the caller starts the collected fields afresh
CallerNextSession_ClearsOnCompletion(f, sess, userMessage, result) ==
    LET appended ==
          [sess EXCEPT
             !.turns = @ \o <<Turn("USER", userMessage),
                              Turn("ASSISTANT", result.botResponse)>>,
             !.fields = @ \o Map(ObjectEntries(result.extractedFields), LAMBDA e :
                               SessionField(f.fields[FindByName(f, e.name)].id, e.value))]
    IN  IF result.isComplete
        THEN [appended EXCEPT !.status = "COMPLETED", !.fields = <<>>]
        ELSE appended

CallerNextSession(f, sess, userMessage, result) ==
    LET appended ==
          [sess EXCEPT
             !.turns = @ \o <<Turn("USER", userMessage),
                              Turn("ASSISTANT", result.botResponse)>>,
             !.fields = @ \o Map(ObjectEntries(result.extractedFields), LAMBDA e :
                               SessionField(f.fields[FindByName(f, e.name)].id, e.value))]
    IN  IF result.isComplete THEN [appended EXCEPT !.status = "COMPLETED"]
        ELSE appended

(***************************************************************************)
(* Invocations of runLlmStep that are in flight together, each with its own *)
(* session snapshot, its own locals and its own position.                   *)
(***************************************************************************)
Slots == {"a", "b"}

\* an invocation that has not started, for the session snapshot it is given;
\* previous is the outcome of the invocation that ran in the slot before it,
\* overlapped whether the other invocation awaited its client while this one
\* awaited its own
IdleInvocation(sess, previous) ==
    [session |-> sess, pc |-> "idle", messages |-> <<>>, outcome |-> NoOutcome,
     calls |-> 0, previous |-> previous, overlapped |-> FALSE]

NoInvocations == [i \in Slots |-> IdleInvocation(EmptySession, NoOutcome)]

\* no deterministic client: the client of the caller loop answers as it likes
NoClient == <<>>

\* no call of validateField on its own
NoCheck ==
    [field |-> Field("", "", "TEXT", FALSE, 0, NoValidation), value |-> VNull,
     pc |-> "none", result |-> NoValidationResult]

(***************************************************************************)
(* The state machine: a caller that runs turns on one session.              *)
(***************************************************************************)
Init ==
    /\ form \in Forms
    /\ session = EmptySession
    /\ pc = "idle"
    /\ messages = <<>>
    /\ reply = NoReply
    /\ outcome = NoOutcome
    \* a host on UTC; no field of these forms is a DATE, so no turn reads it
    /\ hostOffset = 0
    /\ legacyDate = NoDate
    /\ thrown = NoError
    /\ calls = 0
    /\ checked = NoCheck
    /\ client = NoClient
    /\ invocations = NoInvocations

\* runLlmStep up to its await: the messages are built and handed to the client
Call ==
    /\ pc = "idle"
    /\ Len(session.turns) < 2 * MaxTurns
    /\ messages' = BuildMessages(form, session, UserMessage)
    /\ calls' = calls + 1
    /\ pc' = "awaiting"
    /\ UNCHANGED <<hostOffset, legacyDate, form, session, reply, outcome, thrown, client, invocations, checked>>

\* mutant: a reply that makes the turn fail is asked for again, once
LlmReturns_RetriesOnError ==
    /\ pc = "awaiting"
    /\ \E r \in Replies :
          IF runLlmStep(form, session, r).kind = "error" /\ calls < 2
          THEN /\ calls' = calls + 1
               /\ UNCHANGED <<reply, outcome, pc>>
          ELSE /\ reply' = r
               /\ outcome' = runLlmStep(form, session, r)
               /\ pc' = "returned"
               /\ UNCHANGED calls
    /\ UNCHANGED <<hostOffset, legacyDate, form, session, messages, thrown, client, invocations, checked>>

\* mutant: determineNextField sorts the form's own field list, not a copy
LlmReturns_SortsInPlace ==
    /\ pc = "awaiting"
    /\ \E r \in Replies :
          /\ reply' = r
          /\ outcome' = runLlmStep(form, session, r)
          /\ form' = IF /\ runLlmStep(form, session, r).kind = "result"
                        /\ ~runLlmStep(form, session, r).result.isComplete
                     THEN [form EXCEPT !.fields = SortByOrder(@)]
                     ELSE form
    /\ pc' = "returned"
    /\ UNCHANGED <<hostOffset, legacyDate, session, messages, thrown, calls, client, invocations, checked>>

\* the client returns a reply and runLlmStep runs to its end
LlmReturns ==
    /\ pc = "awaiting"
    /\ \E r \in Replies :
          /\ reply' = r
          /\ outcome' = runLlmStep(form, session, r)
    /\ pc' = "returned"
    /\ UNCHANGED <<hostOffset, legacyDate, form, session, messages, thrown, calls, client, invocations, checked>>

\* mutant: the client's failure is caught and rethrown as a ClientError
LlmFails_Wrapped ==
    /\ pc = "awaiting"
    /\ \E e \in LlmFailures :
          /\ thrown' = e
          /\ outcome' = Thrown(ClientError(e.message, 500, "LLM_ERROR", NoContext))
    /\ pc' = "returned"
    /\ UNCHANGED <<hostOffset, legacyDate, form, session, messages, reply, calls, client, invocations, checked>>

\* the client fails and runLlmStep fails with it
LlmFails ==
    /\ pc = "awaiting"
    /\ \E e \in LlmFailures :
          /\ thrown' = e
          /\ outcome' = Thrown(e)
    /\ pc' = "returned"
    /\ UNCHANGED <<hostOffset, legacyDate, form, session, messages, reply, calls, client, invocations, checked>>

\* the caller derives the next snapshot from the result
CallerUpdate ==
    /\ pc = "returned"
    /\ outcome.kind = "result"
    /\ session' = CallerNextSession(form, session, UserMessage, outcome.result)
    /\ pc' = "idle"
    /\ messages' = <<>>
    /\ reply' = NoReply
    /\ outcome' = NoOutcome
    /\ thrown' = NoError
    /\ calls' = 0
    /\ UNCHANGED <<hostOffset, legacyDate, form, client, invocations, checked>>

\* mutant: the values that preceded the failing one are collected all the same
CallerCatches_KeepsValidPrefix ==
    /\ pc = "returned"
    /\ outcome.kind = "error"
    /\ LET entries == reply.extractedFields.entries
           failed == FirstIndex(entries, LAMBDA e :
                         e.name = outcome.error.context.fieldName)
       IN  session' =
             IF outcome.error.errorCode = "VALIDATION_ERROR"
             THEN [session EXCEPT !.fields =
                     @ \o Map(SubSeq(entries, 1, failed - 1), LAMBDA e :
                              SessionField(form.fields[FindByName(form, e.name)].id,
                                           e.value))]
             ELSE session
    /\ pc' = "idle"
    /\ messages' = <<>>
    /\ reply' = NoReply
    /\ outcome' = NoOutcome
    /\ thrown' = NoError
    /\ calls' = 0
    /\ UNCHANGED <<hostOffset, legacyDate, form, client, invocations, checked>>

\* the turn failed: there is no result to derive a snapshot from
CallerCatches ==
    /\ pc = "returned"
    /\ outcome.kind = "error"
    /\ pc' = "idle"
    /\ messages' = <<>>
    /\ reply' = NoReply
    /\ outcome' = NoOutcome
    /\ thrown' = NoError
    /\ calls' = 0
    /\ UNCHANGED <<hostOffset, legacyDate, form, session, client, invocations, checked>>

Next == Call \/ LlmReturns \/ LlmFails \/ CallerUpdate \/ CallerCatches

Spec == Init /\ [][Next]_vars

(***************************************************************************)
(* Two invocations of runLlmStep on one event loop, for one form and two    *)
(* session snapshots, with a deterministic model client.  Each runs to its  *)
(* await, and from the settling of its call to its end, in one step; the    *)
(* steps of the two interleave freely, and a slot runs again with the same  *)
(* inputs once its invocation is over.                                      *)
(***************************************************************************)
\* an answer of a deterministic client: the reply it resolves to or the
\* error it rejects with
Resolved(r) == [kind |-> "resolved", reply |-> r, error |-> NoError]

Rejected(e) == [kind |-> "rejected", reply |-> NoReply, error |-> e]

\* the forms of PairFields fields
PairForms == { f \in Forms : Len(f.fields) = PairFields }

\* the replies of the client: no JSON, the empty mapping, and a mapping of one
\* key, a name of the form or a name of no field
PairReplies(f) ==
    { r \in Replies : ~r.json }
    \cup { Reply(TRUE, "object", TRUE, VStr(OkChars), TRUE, Ef(VObj, m)) :
             m \in {<<>>} \cup { <<Entry(nm, VStr(EmailChars))>> :
                                   nm \in SetOf(Map(f.fields, LAMBDA fd : fd.name))
                                           \cup {"unknown"} } }

PairAnswers(f) == { Resolved(r) : r \in PairReplies(f) } \cup { Rejected(LlmError) }

\* the session snapshots the invocations are given: the empty session and
\* those the caller derives from it in one turn
SnapshotAfter(f, o) ==
    IF o.kind = "result"
    THEN {CallerNextSession(f, EmptySession, UserMessage, o.result)}
    ELSE {}

Snapshots(f) ==
    {EmptySession}
    \cup UNION { SnapshotAfter(f, runLlmStep(f, EmptySession, r)) : r \in PairReplies(f) }

PairInit ==
    /\ form \in PairForms
    /\ \E sa, sb \in Snapshots(form) :
          /\ invocations =
                [i \in Slots |-> IdleInvocation(IF i = "a" THEN sa ELSE sb, NoOutcome)]
          /\ client \in [ { BuildMessages(form, sa, UserMessage),
                            BuildMessages(form, sb, UserMessage) } -> PairAnswers(form) ]
    /\ session = EmptySession
    /\ pc = "idle"
    /\ messages = <<>>
    /\ reply = NoReply
    /\ outcome = NoOutcome
    /\ hostOffset = 0
    /\ legacyDate = NoDate
    /\ thrown = NoError
    /\ calls = 0
    /\ checked = NoCheck

\* mutant: the messages are kept in a buffer the invocations share, which a
\* later call overwrites
pendingMessages_Shared(i) ==
    IF \E j \in Slots \ {i} : invocations[j].pc = "awaiting"
    THEN invocations[CHOOSE j \in Slots \ {i} : invocations[j].pc = "awaiting"].messages
    ELSE invocations[i].messages

\* the messages local of invocation i
pendingMessages(i) == invocations[i].messages

\* mutant: the session is kept in a module-level variable the invocations share
sessionOf_Shared(i) == invocations["a"].session

\* the session parameter of invocation i
sessionOf(i) == invocations[i].session

\* invocation i runs up to its await
PairCall(i) ==
    /\ invocations[i].pc = "idle"
    /\ invocations' =
          [j \in Slots |->
              IF j = i
              THEN [invocations[i] EXCEPT
                      !.messages = BuildMessages(form, sessionOf(i), UserMessage),
                      !.calls = @ + 1,
                      !.pc = "awaiting",
                      !.overlapped = \E k \in Slots \ {i} : invocations[k].pc = "awaiting"]
              ELSE [invocations[j] EXCEPT
                      !.overlapped = @ \/ invocations[j].pc = "awaiting"]]
    /\ UNCHANGED <<form, session, pc, messages, reply, outcome, hostOffset, legacyDate, thrown, calls,
                   client, checked>>

\* the call of invocation i settles with the client's answer to its messages
\* and the invocation runs to its end
PairSettle(i) ==
    /\ invocations[i].pc = "awaiting"
    /\ LET answer == client[pendingMessages(i)]
       IN  invocations' =
             [invocations EXCEPT
                ![i].outcome = IF answer.kind = "rejected" THEN Thrown(answer.error)
                               ELSE runLlmStep(form, sessionOf(i), answer.reply),
                ![i].pc = "returned"]
    /\ UNCHANGED <<form, session, pc, messages, reply, outcome, hostOffset, legacyDate, thrown, calls,
                   client, checked>>

\* the slot of a finished invocation is given the same inputs again
PairAgain(i) ==
    /\ invocations[i].pc = "returned"
    /\ invocations' =
          [invocations EXCEPT
             ![i] = IdleInvocation(invocations[i].session, invocations[i].outcome)]
    /\ UNCHANGED <<form, session, pc, messages, reply, outcome, hostOffset, legacyDate, thrown, calls,
                   client, checked>>

PairCalls == \E i \in Slots : PairCall(i)

PairSettles == \E i \in Slots : PairSettle(i)

PairRunsAgain == \E i \in Slots : PairAgain(i)

PairNext == PairCalls \/ PairSettles \/ PairRunsAgain

SpecPair == PairInit /\ [][PairNext]_vars

(***************************************************************************)
(* One call of validateField, for a field of any kind with any constraints  *)
(* and a value of any shape.                                                *)
(***************************************************************************)
FieldTypes == {"TEXT", "EMAIL", "PHONE", "NUMBER", "DATE", "ENUM", "LONG_TEXT"}

SizeOptions == << <<"S">>, <<"M">>, <<"L">> >>

\* the validation rules of a field: none, a range, a range whose ends are
\* the wrong way round, one end of a range, options
ValidationRules ==
    { NoValidation,
      [NoValidation EXCEPT !.hasMin = TRUE, !.min = AgeMin,
                           !.hasMax = TRUE, !.max = AgeMax],
      [NoValidation EXCEPT !.hasMin = TRUE, !.min = AgeMax,
                           !.hasMax = TRUE, !.max = AgeMin],
      [NoValidation EXCEPT !.hasMin = TRUE, !.min = AgeMin],
      [NoValidation EXCEPT !.hasMax = TRUE, !.max = AgeMax],
      [NoValidation EXCEPT !.hasOptions = TRUE, !.options = SizeOptions] }

CheckedFields ==
    { Field("field_001", "answer", type, required, 0, rules) :
        type \in FieldTypes, required \in BOOLEAN, rules \in ValidationRules }

IsoDateChars == <<"2", "0", "2", "4", "-", "0", "1", "-", "1", "5">>

\* a day February does not have, which the engine carries into March
Feb30Chars ==
    <<"2", "0", "2", "4", "-", "0", "2", "-", "3", "0">>

\* February 29th of a year that is no leap year
Feb29Chars ==
    <<"2", "0", "2", "3", "-", "0", "2", "-", "2", "9">>

\* February 29th of a leap year
LeapDayChars ==
    <<"2", "0", "2", "4", "-", "0", "2", "-", "2", "9">>

\* a day April does not have
Apr31Chars ==
    <<"2", "0", "2", "4", "-", "0", "4", "-", "3", "1">>

\* a day no month has: not of an ISO form
Jan32Chars ==
    <<"2", "0", "2", "4", "-", "0", "1", "-", "3", "2">>

\* February 30th with a time of day
Feb30NoonChars ==
    <<"2", "0", "2", "4", "-", "0", "2", "-", "3", "0", "T", "1", "2", ":",
      "0", "0", ":", "0", "0", "Z">>

\* a date and a time with a space between them: not of an ISO form
SpacedDateChars ==
    <<"2", "0", "2", "4", "-", "0", "1", "-", "1", "5", " ", "1", "0", ":",
      "0", "0">>

\* the same for February 30th
SpacedFeb30Chars ==
    <<"2", "0", "2", "4", "-", "0", "2", "-", "3", "0", " ", "1", "0", ":",
      "0", "0">>

\* the date-time of the tests
IsoDateTimeChars ==
    <<"2", "0", "2", "4", "-", "0", "1", "-", "1", "5", "T", "1", "0", ":",
      "3", "0", ":", "0", "0", "Z">>

\* noon two hours east of UTC
NoonEastChars ==
    <<"2", "0", "2", "4", "-", "0", "1", "-", "1", "5", "T", "1", "2", ":",
      "0", "0", ":", "0", "0", "+", "0", "2", ":", "0", "0">>

\* late evening in New York: the next day in UTC
EveningWestChars ==
    <<"2", "0", "2", "4", "-", "0", "1", "-", "1", "5", "T", "2", "3", ":",
      "3", "0", ":", "0", "0", "-", "0", "5", ":", "0", "0">>

\* early morning in India: the day before in UTC
MorningEastChars ==
    <<"2", "0", "2", "4", "-", "0", "1", "-", "1", "5", "T", "0", "0", ":",
      "3", "0", ":", "0", "0", "+", "0", "5", ":", "3", "0">>

\* a date-time without a zone: host time
LocalDateTimeChars ==
    <<"2", "0", "2", "4", "-", "0", "1", "-", "1", "5", "T", "0", "0", ":",
      "3", "0", ":", "0", "0">>

\* the date strings validateField is called with
DateStrings ==
    { Feb30Chars, Feb29Chars, LeapDayChars, Apr31Chars,
      Jan32Chars, Feb30NoonChars, SpacedDateChars, SpacedFeb30Chars,
      IsoDateTimeChars, NoonEastChars, EveningWestChars, MorningEastChars,
      LocalDateTimeChars }

\* the values validateField is called with: absent, text of each kind,
\* numbers inside the range, at its ends and outside it, and the other shapes
\* JSON holds
CheckedValues ==
    { VNull, VUndefined, VStr(<<>>), VStr(EmailChars), VStr(PhoneChars),
      VStr(IsoDateChars), VStr(<<"M">>), VStr(<<"2", "5">>), VNum(25), VNum(17),
      VNum(AgeMin), VNum(AgeMax), VNum(AgeMax + 1), VNum(0 - 1),
      VBool(TRUE), VArr(1, <<"x">>), VObj }
    \cup { VStr(chars) : chars \in DateStrings }

\* the hosts' time zones: New York in winter, UTC, India
HostOffsets == {0 - 300, 0, 330}

\* what the fallback parser may make of a string that is not of an ISO form:
\* no date, or a date
LegacyDates ==
    { NoDate, UtcDate(2024, 1, 15), UtcDate(2024, 2, 29), UtcDate(2024, 3, 1),
      UtcDate(2001, 1, 1) }

ValidateInit ==
    /\ \E fd \in CheckedFields, v \in CheckedValues :
          checked = [field |-> fd, value |-> v, pc |-> "called",
                     result |-> NoValidationResult]
    /\ hostOffset \in HostOffsets
    /\ legacyDate \in LegacyDates
    /\ form = [id |-> FormId, fields |-> <<>>]
    /\ session = EmptySession
    /\ pc = "idle"
    /\ messages = <<>>
    /\ reply = NoReply
    /\ outcome = NoOutcome
    /\ thrown = NoError
    /\ calls = 0
    /\ client = NoClient
    /\ invocations = NoInvocations

\* validateField runs and returns its result
Validate ==
    /\ checked.pc = "called"
    /\ checked' = [checked EXCEPT !.pc = "returned",
                                  !.result = validateField(checked.field, checked.value)]
    /\ UNCHANGED <<form, session, pc, messages, reply, outcome, hostOffset, legacyDate, thrown, calls,
                   client, invocations>>

ValidateNext == Validate

SpecValidate == ValidateInit /\ [][ValidateNext]_vars

(***************************************************************************)
(* The caller loop for forms whose fields are of several kinds, declare     *)
(* constraints or none and may share a programmatic name (nothing in the    *)
(* core checks that names are unique), with replies that propose a value of *)
(* any JSON shape.                                                          *)
(***************************************************************************)
\* two fields that share the name contact, a number in a range, a choice
\* among options and a choice declared without options
KindFieldPool ==
    { Field("field_001", "contact", "EMAIL", TRUE, 0, NoValidation),
      Field("field_002", "contact", "TEXT", TRUE, 1, NoValidation),
      Field("field_003", "age", "NUMBER", TRUE, 2,
            [NoValidation EXCEPT !.hasMin = TRUE, !.min = AgeMin,
                                 !.hasMax = TRUE, !.max = AgeMax]),
      Field("field_004", "size", "ENUM", FALSE, 3,
            [NoValidation EXCEPT !.hasOptions = TRUE, !.options = SizeOptions]),
      Field("field_005", "tier", "ENUM", TRUE, 4, NoValidation) }

KindForms ==
    { [id |-> FormId, fields |-> fs] : fs \in InjectiveSeqs(KindFieldPool, KindFields) }

\* the values a reply proposes: absent, text, numbers inside and outside the
\* range, and the shapes of JSON that are no field value
KindValues ==
    { VNull, VStr(EmailChars), VStr(<<"M">>), VNum(25), VNum(17), VBool(TRUE),
      VArr(1, <<"x">>), VObj }

\* the mappings of a reply: empty, or one name of the form with a value
KindMappings(f) ==
    { <<>> } \cup { <<Entry(fd.name, v)>> : fd \in SetOf(f.fields), v \in KindValues }

KindReplies(f) ==
    { Reply(TRUE, "object", TRUE, VStr(OkChars), TRUE, Ef(VObj, m)) : m \in KindMappings(f) }

KindInit ==
    /\ form \in KindForms
    /\ session = EmptySession
    /\ pc = "idle"
    /\ messages = <<>>
    /\ reply = NoReply
    /\ outcome = NoOutcome
    \* no field of these forms is a DATE
    /\ hostOffset = 0
    /\ legacyDate = NoDate
    /\ thrown = NoError
    /\ calls = 0
    /\ checked = NoCheck
    /\ client = NoClient
    /\ invocations = NoInvocations

\* the client returns a reply and runLlmStep runs to its end
KindReturns ==
    /\ pc = "awaiting"
    /\ \E r \in KindReplies(form) :
          /\ reply' = r
          /\ outcome' = runLlmStep(form, session, r)
    /\ pc' = "returned"
    /\ UNCHANGED <<hostOffset, legacyDate, form, session, messages, thrown, calls, client,
                   invocations, checked>>

KindNext == Call \/ KindReturns \/ CallerUpdate \/ CallerCatches

SpecKinds == KindInit /\ [][KindNext]_vars

(***************************************************************************)
(* Vocabulary of the claims, stated on the form and the session and not     *)
(* through the operators of the orchestrator.                               *)
(***************************************************************************)
FieldsOf(f) == { f.fields[i] : i \in 1..Len(f.fields) }

RequiredIds(f) == { fd.id : fd \in { g \in FieldsOf(f) : g.required } }

OptionalIds(f) == { fd.id : fd \in { g \in FieldsOf(f) : ~g.required } }

CollectedIds(sess) == { sess.fields[i].fieldId : i \in 1..Len(sess.fields) }

\* the keys of an extracted mapping
ExtractedNames(ef) == { ef.entries[i].name : i \in 1..Len(ef.entries) }

\* the ids of the fields a mapping names
NamedIds(f, ef) == { fd.id : fd \in { g \in FieldsOf(f) : g.name \in ExtractedNames(ef) } }

\* the completion union of a turn: already collected and newly extracted ids
CompletionUnion(f, sess, ef) == CollectedIds(sess) \cup NamedIds(f, ef)

\* runLlmStep has returned a result for the current form, session and reply
HasResult == pc = "returned" /\ outcome.kind = "result"

\* field i of f comes before field j in display order, ties by declaration
DisplayBefore(f, i, j) ==
    \/ f.fields[i].order < f.fields[j].order
    \/ f.fields[i].order = f.fields[j].order /\ i < j

\* the positions of the required fields whose id is not in ids
AbsentRequired(f, ids) ==
    { i \in 1..Len(f.fields) : f.fields[i].required /\ f.fields[i].id \notin ids }

\* the name of the first required field absent from ids, in display order
FirstAbsentRequired(f, ids) ==
    f.fields[CHOOSE i \in AbsentRequired(f, ids) :
                \A j \in AbsentRequired(f, ids) \ {i} : DisplayBefore(f, i, j)].name

(***************************************************************************)
(* The claims.                                                              *)
(***************************************************************************)
\* C1: in every result runLlmStep returns, isComplete is true if and only if
\* the id of every required field is in the union of the ids of the session's
\* collected fields and the ids of the fields named in the extracted mapping;
\* taking the optional fields' ids out of that union changes nothing.
C1_CompleteIffRequiredInUnion ==
    HasResult =>
        LET union == CompletionUnion(form, session, outcome.result.extractedFields)
        IN  /\ outcome.result.isComplete <=> RequiredIds(form) \subseteq union
            /\ outcome.result.isComplete
                 <=> RequiredIds(form) \subseteq (union \ OptionalIds(form))

\* a complete turn that needs both halves of the union, with an optional field
\* left uncollected
C1_Witness ==
    /\ HasResult
    /\ outcome.result.isComplete
    /\ ~(RequiredIds(form) \subseteq CollectedIds(session))
    /\ ~(RequiredIds(form) \subseteq NamedIds(form, outcome.result.extractedFields))
    /\ ~(OptionalIds(form)
           \subseteq CompletionUnion(form, session, outcome.result.extractedFields))

\* C2: when a turn is not complete, nextField is the name of the first required
\* field, in ascending display order with ties in declaration position, whose
\* id is absent from the completion union; and determineNextField returns null
\* exactly when no required field is absent from the session it is given.
C2_NextFieldIsFirstAbsentRequired ==
    /\ (HasResult /\ ~outcome.result.isComplete) =>
          outcome.result.nextField =
              FirstAbsentRequired(form,
                  CompletionUnion(form, session, outcome.result.extractedFields))
    /\ (determineNextField(form, session) = Null)
          <=> (AbsentRequired(form, CollectedIds(session)) = {})
    /\ (determineNextField(form, session) # Null) =>
          determineNextField(form, session)
              = FirstAbsentRequired(form, CollectedIds(session))

\* an incomplete turn whose next field is declared after another absent
\* required field and shares its display order with a third
C2_Witness ==
    /\ HasResult
    /\ ~outcome.result.isComplete
    /\ LET absent == AbsentRequired(form,
                        CompletionUnion(form, session, outcome.result.extractedFields))
       IN  \E i, j, k \in absent :
             /\ form.fields[i].name = outcome.result.nextField
             /\ j < i
             /\ k # i
             /\ form.fields[k].order = form.fields[i].order

\* C3: in every result, nextField is present if and only if isComplete is
\* false.
C3_NextFieldIffIncomplete ==
    HasResult => ((outcome.result.nextField # Undefined) <=> ~outcome.result.isComplete)

\* an incomplete result that extracted something and carries a next field
C3_Witness ==
    /\ HasResult
    /\ ~outcome.result.isComplete
    /\ outcome.result.nextField # Undefined
    /\ outcome.result.extractedFields.entries # <<>>

ContactFields ==
    << Field("field_001", "name", "TEXT", TRUE, 0, NoValidation),
       Field("field_002", "email", "EMAIL", TRUE, 1, NoValidation),
       Field("field_003", "phone", "PHONE", FALSE, 2, NoValidation) >>

\* the Quick Start turn: the contact form, an empty session, name and email
\* extracted
QuickStartTurn ==
    /\ HasResult
    /\ form.fields = ContactFields
    /\ session.fields = <<>>
    /\ ExtractedNames(outcome.result.extractedFields) = {"name", "email"}

C6_AtMostOneCollectedFieldPerId ==
    \A i, j \in 1..Len(session.fields) :
        i # j => session.fields[i].fieldId # session.fields[j].fieldId

\* C7: COMPLETED and ABANDONED are terminal: a step taken while the session is
\* not ACTIVE leaves its turns, its collected fields and its status as they
\* are.
C7_TerminalStatuses ==
    [][session.status # "ACTIVE" => session' = session]_vars

\* C8: every fieldId in the session is the id of a field of the form.
C8_CollectedFieldsReferenceForm ==
    CollectedIds(session) \subseteq { fd.id : fd \in FieldsOf(form) }

\* a session that collected a field twice, for a form that leaves fields of
\* the pool out
C8_Witness ==
    /\ Len(session.fields) >= 2
    /\ Len(session.turns) = 2 * MaxTurns
    /\ Len(form.fields) < Cardinality(FieldPool)
    /\ ~C6_AtMostOneCollectedFieldPerId

\* the reply is an object with both keys whose extractedFields is a mapping
ReplyHasMapping ==
    /\ reply.json
    /\ reply.top = "object"
    /\ reply.hasBotResponse
    /\ reply.hasExtractedFields
    /\ reply.extractedFields.t = "object"

FieldNames(f) == { fd.name : fd \in FieldsOf(f) }

\* the first key of the mapping, in key order, that names no field of the form
FirstUnknownKey(f, ef) ==
    ef.entries[CHOOSE i \in 1..Len(ef.entries) :
                  /\ ef.entries[i].name \notin FieldNames(f)
                  /\ \A j \in 1..(i - 1) : ef.entries[j].name \in FieldNames(f)].name

\* C9: when a key of the reply's extracted mapping is not the name of a field
\* of the form, runLlmStep fails with the ClientError "Field not in form
\* definition", code UNKNOWN_FIELD, whose context names the first such key and
\* the form id, and returns no result, whatever the other keys carry.
C9_UnknownFieldRejected ==
    (/\ pc = "returned"
     /\ ReplyHasMapping
     /\ ~(ExtractedNames(reply.extractedFields) \subseteq FieldNames(form)))
      => /\ outcome.kind = "error"
         /\ outcome.result = NoResult
         /\ outcome.error.class = "ClientError"
         /\ outcome.error.message = Msg("Field not in form definition", 0, <<>>)
         /\ outcome.error.errorCode = "UNKNOWN_FIELD"
         /\ outcome.error.context.keys = {"fieldName", "formId"}
         /\ outcome.error.context.fieldName = FirstUnknownKey(form, reply.extractedFields)
         /\ outcome.error.context.formId = form.id

\* a reply whose first key is a field with a valid value and whose second key
\* is unknown
C9_Witness ==
    /\ pc = "returned"
    /\ ReplyHasMapping
    /\ Len(reply.extractedFields.entries) = 2
    /\ reply.extractedFields.entries[1].name \in FieldNames(form)
    /\ validateField(fieldMapGet(form, reply.extractedFields.entries[1].name),
                     reply.extractedFields.entries[1].value).valid
    /\ reply.extractedFields.entries[2].name \notin FieldNames(form)
    /\ outcome.kind = "error"
    /\ outcome.error.errorCode = "UNKNOWN_FIELD"

\* C10: every failure of runLlmStep after the model client has returned is a
\* ClientError with code INVALID_LLM_RESPONSE, UNKNOWN_FIELD or
\* VALIDATION_ERROR.
C10_OnlyClientErrors ==
    (pc = "returned" /\ reply # NoReply /\ outcome.kind = "error")
      => /\ outcome.error.class = "ClientError"
         /\ outcome.error.errorCode
              \in {"INVALID_LLM_RESPONSE", "UNKNOWN_FIELD", "VALIDATION_ERROR"}

\* the reply parses to an object that has both keys
ReplyHasBothKeys ==
    /\ reply.json
    /\ reply.top = "object"
    /\ reply.hasBotResponse
    /\ reply.hasExtractedFields

\* the messages of the three interpretation failures
InterpretationMessages ==
    { Msg("LLM returned invalid JSON", 0, <<>>),
      Msg("LLM response missing required fields (botResponse, extractedFields)", 0, <<>>),
      Msg("Field not in form definition", 0, <<>>) }

\* the client returned a reply and runLlmStep failed before it validated any
\* value
InterpretationFailed ==
    /\ pc = "returned"
    /\ reply # NoReply
    /\ outcome.kind = "error"
    /\ outcome.error.errorCode # "VALIDATION_ERROR"

\* C11: a reply that is not JSON fails with "LLM returned invalid JSON"; a
\* JSON reply that is not an object with both keys fails with "LLM response
\* missing required fields"; only a reply that passes both checks fails with
\* "Field not in form definition"; and every reply that fails interpretation
\* fails with one of these three messages.
C11_InterpretationFailuresOrdered ==
    (pc = "returned" /\ reply # NoReply) =>
        /\ ~reply.json =>
              /\ outcome.kind = "error"
              /\ outcome.error.message = Msg("LLM returned invalid JSON", 0, <<>>)
        /\ (reply.json /\ ~ReplyHasBothKeys) =>
              /\ outcome.kind = "error"
              /\ outcome.error.message =
                   Msg("LLM response missing required fields (botResponse, extractedFields)",
                       0, <<>>)
        /\ (/\ outcome.kind = "error"
            /\ outcome.error.message = Msg("Field not in form definition", 0, <<>>))
              => ReplyHasBothKeys
        /\ InterpretationFailed => outcome.error.message \in InterpretationMessages

\* the field of the form that carries the name
FieldNamed(f, name) == CHOOSE fd \in FieldsOf(f) : fd.name = name

\* the positions of the mapping whose value its field's validation rejects
InvalidEntries(f, ef) ==
    { i \in 1..Len(ef.entries) :
        ~validateField(FieldNamed(f, ef.entries[i].name), ef.entries[i].value).valid }

\* the reply is a mapping of names of the form, at least one with a value that
\* is invalid for its field
ReplyHasInvalidValue ==
    /\ ReplyHasMapping
    /\ ExtractedNames(reply.extractedFields) \subseteq FieldNames(form)
    /\ InvalidEntries(form, reply.extractedFields) # {}

\* the first position of the mapping, in key order, that holds an invalid value
FirstInvalidEntry(f, ef) ==
    CHOOSE i \in InvalidEntries(f, ef) : \A j \in InvalidEntries(f, ef) : i <= j

\* C12: when extracted values are invalid, runLlmStep fails with one
\* ClientError of code VALIDATION_ERROR whose message is the validator's reason
\* for the first invalid value in key order and whose context carries that
\* field's name, its raw value and the form id; later failures are not
\* reported.
C12_FirstInvalidValueReported ==
    (pc = "returned" /\ ReplyHasInvalidValue) =>
        LET first == reply.extractedFields.entries[
                         FirstInvalidEntry(form, reply.extractedFields)]
        IN  /\ outcome.kind = "error"
            /\ outcome.error.class = "ClientError"
            /\ outcome.error.errorCode = "VALIDATION_ERROR"
            /\ outcome.error.message
                 = validateField(FieldNamed(form, first.name), first.value).error
            /\ outcome.error.context.keys = {"fieldName", "value", "formId"}
            /\ outcome.error.context.fieldName = first.name
            /\ outcome.error.context.value = first.value
            /\ outcome.error.context.formId = form.id

\* a reply with two invalid values that fail for different reasons
C12_Witness ==
    /\ pc = "returned"
    /\ ReplyHasInvalidValue
    /\ outcome.kind = "error"
    /\ outcome.error.errorCode = "VALIDATION_ERROR"
    /\ \E i, j \in InvalidEntries(form, reply.extractedFields) :
          /\ i < j
          /\ validateField(FieldNamed(form, reply.extractedFields.entries[i].name),
                           reply.extractedFields.entries[i].value).error
             # validateField(FieldNamed(form, reply.extractedFields.entries[j].name),
                             reply.extractedFields.entries[j].value).error

\* C13: a turn that aborts returns nothing for the caller to append: the
\* session snapshot changes only in the caller's step from a returned result,
\* so after a failed turn it is what it was before the turn, and the valid
\* values that preceded the failing value in the reply are not collected.
C13_FailedTurnLeavesSession ==
    [][/\ session' # session => (pc = "returned" /\ outcome.kind = "result")
       /\ (pc = "returned" /\ outcome.kind = "error") =>
             (outcome.result = NoResult /\ session' = session)]_vars

\* a turn on a session that holds a collected field fails on the second value
\* of a reply whose first value is valid
C13_Witness ==
    /\ pc = "returned"
    /\ session.fields # <<>>
    /\ ReplyHasInvalidValue
    /\ FirstInvalidEntry(form, reply.extractedFields) = 2
    /\ outcome.kind = "error"
    /\ outcome.error.errorCode = "VALIDATION_ERROR"

\* C14: when the model client's complete call fails, runLlmStep fails with
\* that same failure: the outcome is the error the client rejected with,
\* neither wrapped nor converted, there is no reply to interpret or validate,
\* and no result.
C14_ClientFailurePropagates ==
    (pc = "returned" /\ thrown # NoError) =>
        /\ outcome.kind = "error"
        /\ outcome.error = thrown
        /\ outcome.error.class # "ClientError"
        /\ outcome.result = NoResult
        /\ reply = NoReply

\* the client fails in a turn on a session that already holds a collected
\* field
C14_Witness ==
    /\ pc = "returned"
    /\ thrown = LlmRateLimited
    /\ outcome.kind = "error"
    /\ session.fields # <<>>

\* C15: an invocation of runLlmStep calls the model client exactly once on
\* every path: it has called it once when it awaits and before any outcome
\* exists, and it has still called it once when it has returned or failed,
\* whatever the reply was.
C15_ClientCalledExactlyOnce ==
    /\ pc = "idle" => calls = 0
    /\ pc = "awaiting" => (calls = 1 /\ outcome = NoOutcome)
    /\ pc = "returned" => calls = 1
    /\ outcome # NoOutcome => calls = 1

\* a turn that failed validation, after one that succeeded
C15_Witness ==
    /\ pc = "returned"
    /\ calls = 1
    /\ session.turns # <<>>
    /\ outcome.kind = "error"
    /\ outcome.error.errorCode = "VALIDATION_ERROR"

\* C16: the messages handed to the model client are |session.turns| + 2: first
\* the system instruction block, then the session's turns in their order, each
\* with its content and with role USER as 'user' and ASSISTANT as 'assistant',
\* and last the new user message with role 'user'.
C16_MessageSequence ==
    pc # "idle" =>
        LET n == Len(session.turns)
        IN  /\ Len(messages) = n + 2
            /\ messages[1].role = "system"
            /\ messages[1].prompt = buildSystemPrompt(form, session)
            /\ \A k \in 1..n :
                  /\ messages[k + 1].content = session.turns[k].content
                  /\ session.turns[k].role = "USER" => messages[k + 1].role = "user"
                  /\ session.turns[k].role = "ASSISTANT"
                        => messages[k + 1].role = "assistant"
            /\ messages[n + 2].role = "user"
            /\ messages[n + 2].content = UserMessage

\* the client is called for a session that holds a user turn and an assistant
\* turn of different content and a collected field
C16_Witness ==
    /\ pc = "awaiting"
    /\ Len(session.turns) = 2
    /\ session.turns[1].role = "USER"
    /\ session.turns[2].role = "ASSISTANT"
    /\ session.turns[1].content # session.turns[2].content
    /\ session.fields # <<>>
    /\ Len(messages) = 4

\* C18: runLlmStep, and determineNextField within it, leave their inputs as
\* they are on every path: from the call to the result or the failure the
\* session's turns, collected fields and status and the form's field list,
\* its element order included, do not change.
C18_InputsUnchanged ==
    [][(pc = "idle" \/ pc = "awaiting") => (form' = form /\ session' = session)]_vars

\* an incomplete result, for which determineNextField ran, on a form whose
\* fields are not declared in display order and a session that holds a
\* collected field
C18_Witness ==
    /\ HasResult
    /\ ~outcome.result.isComplete
    /\ session.fields # <<>>
    /\ \E i, j \in 1..Len(form.fields) :
          i < j /\ form.fields[i].order > form.fields[j].order

\* the outcome of an invocation for session sess when no other invocation
\* runs: the client's answer to its messages, taken to the end of runLlmStep
AloneOutcome(f, sess) ==
    LET answer == client[BuildMessages(f, sess, UserMessage)]
    IN  IF answer.kind = "rejected" THEN Thrown(answer.error)
        ELSE runLlmStep(f, sess, answer.reply)

\* the outcomes of the invocations that have finished in slot i
FinishedOutcomes(i) ==
    {invocations[i].outcome, invocations[i].previous} \ {NoOutcome}

C19_ConcurrentInvocationsIndependent ==
    \A i \in Slots :
        invocations[i].pc = "returned" =>
            invocations[i].outcome = AloneOutcome(form, invocations[i].session)

\* both invocations awaited their client at the same time and have finished,
\* for different sessions, one with a result and one with an error
C19_Witness ==
    /\ \A i \in Slots : invocations[i].pc = "returned" /\ invocations[i].overlapped
    /\ invocations["a"].session # invocations["b"].session
    /\ invocations["a"].session.fields # <<>>
    /\ \E i, j \in Slots :
          /\ invocations[i].outcome.kind = "result"
          /\ invocations[j].outcome.kind = "error"

\* validateField has returned for the field and the value it was called with
Validated == checked.pc = "returned"

\* the value is null or undefined
AbsentValue(v) == v.t = "null" \/ v.t = "undefined"

\* C20: for an absent value, null or undefined, the result of validateField
\* depends only on the field's required flag, for each of the seven kinds and
\* any constraints: a required field fails with "Field is required" and an
\* optional field succeeds, with no type-specific validation.
C20_AbsentValueByRequiredOnly ==
    (Validated /\ AbsentValue(checked.value)) =>
        /\ checked.field.required =>
              checked.result = Invalid(Msg("Field is required", 0, <<>>))
        /\ ~checked.field.required => checked.result = Valid

\* undefined for an optional EMAIL field, which the email validator would
\* reject as text
C20_Witness ==
    /\ Validated
    /\ checked.value = VUndefined
    /\ checked.field.type = "EMAIL"
    /\ ~checked.field.required
    /\ checked.result = Valid

\* validateField was called for a NUMBER field with a number
NumberChecked ==
    Validated /\ checked.field.type = "NUMBER" /\ checked.value.t = "number"

\* C21: validateNumber, for every integer value and every min and max, each
\* possibly absent, fails with "Number must be at least {min}" when min is
\* present and the value is below it; otherwise fails with "Number must be at
\* most {max}" when max is present and the value is above it; otherwise
\* succeeds.  Both bounds are inclusive, an absent bound imposes no
\* constraint, and the min check takes precedence.
C21_NumberWithinBounds ==
    NumberChecked =>
        LET v == checked.value.n
            rules == checked.field.validation
            belowMin == rules.hasMin /\ v < rules.min
            aboveMax == rules.hasMax /\ v > rules.max
        IN  /\ belowMin =>
                  checked.result = Invalid(Msg("Number must be at least ", rules.min, <<>>))
            /\ (~belowMin /\ aboveMax) =>
                  checked.result = Invalid(Msg("Number must be at most ", rules.max, <<>>))
            /\ (~belowMin /\ ~aboveMax) => checked.result = Valid

\* a number below the min and above the max of a range whose ends are the
\* wrong way round: the min is the bound reported
C21_Witness ==
    /\ NumberChecked
    /\ checked.field.validation.hasMin
    /\ checked.field.validation.hasMax
    /\ checked.value.n < checked.field.validation.min
    /\ checked.value.n > checked.field.validation.max
    /\ checked.result =
         Invalid(Msg("Number must be at least ", checked.field.validation.min, <<>>))

\* validateField was called for a DATE field with a string
DateChecked ==
    Validated /\ checked.field.type = "DATE" /\ checked.value.t = "string"

\* the year, month and day a string that begins with YYYY-MM-DD writes
WrittenDate(chars) ==
    [year |-> NumAt(chars, 1, 4), month |-> NumAt(chars, 6, 7), day |-> NumAt(chars, 9, 10)]

\* the written day exists in the written month
RealCalendarDay(w) ==
    w.month \in 1..12 /\ w.day \in 1..DaysInMonth(w.year, w.month)

\* C22: validateDate rejects calendar overflow: for a string beginning with
\* YYYY-MM-DD, the validator succeeds only if the string parses to a valid
\* date and the year, month and day written in the string equal the parsed
\* date's UTC year, month and day; a string naming a day that does not exist
\* in its month (2024-02-30) fails with "Invalid date format" instead of
\* being rolled forward.
C22_CalendarOverflowRejected ==
    (DateChecked /\ isoFormat(checked.value.s)) =>
        LET w == WrittenDate(checked.value.s)
            parsed == ParseDate(checked.value.s, hostOffset, legacyDate)
        IN  /\ checked.result = Valid =>
                  /\ ~parsed.nan
                  /\ parsed.year = w.year
                  /\ parsed.month = w.month
                  /\ parsed.day = w.day
            /\ ~RealCalendarDay(w) =>
                  checked.result = Invalid(Msg("Invalid date format", 0, <<>>))

\* 2024-02-30, which the engine reads as March 1st, is rejected
C22_Witness ==
    /\ DateChecked
    /\ checked.value.s = Feb30Chars
    /\ ParseDate(Feb30Chars, hostOffset, legacyDate) = UtcDate(2024, 3, 1)
    /\ checked.result = Invalid(Msg("Invalid date format", 0, <<>>))

\* an ISO 8601 date-time: a date that exists, T, a time of day and a zone
\* designator, Z or a numeric offset
IsoDateTimeWithZone(chars) ==
    /\ isoFormat(chars)
    /\ RealCalendarDay(WrittenDate(chars))
    /\ LET time == ParseIsoTime(SubSeq(chars, 11, Len(chars)))
       IN  time.ok /\ time.zone \in {"utc", "offset"}

\* C26: validateDate returns valid for every ISO 8601 date-time string whose
\* date part is a real calendar date, whatever its time of day and zone
\* designator (Z or a numeric UTC offset).
C26_IsoDateTimeAccepted ==
    (DateChecked /\ IsoDateTimeWithZone(checked.value.s)) => checked.result = Valid

\* C30: every result returned by runLlmStep has the shape promised by
\* OrchestratorResult: botResponse is a string, and extractedFields is a
\* mapping whose keys are all names of fields of the form; this holds for
\* every JSON reply that contains the two keys, whatever the JSON types of
\* their values.
C30_ResultHasPromisedShape ==
    HasResult =>
        /\ outcome.result.botResponse.t = "string"
        /\ outcome.result.extractedFields.t = "object"
        /\ ExtractedNames(outcome.result.extractedFields) \subseteq FieldNames(form)

\* the reply is a mapping that holds both an unknown key and a value that is
\* invalid for the field its key names
ReplyHasInvalidValueAndUnknownKey ==
    /\ ReplyHasMapping
    /\ \E i \in 1..Len(reply.extractedFields.entries) :
          reply.extractedFields.entries[i].name \notin FieldNames(form)
    /\ \E i \in 1..Len(reply.extractedFields.entries) :
          /\ reply.extractedFields.entries[i].name \in FieldNames(form)
          /\ ~validateField(FieldNamed(form, reply.extractedFields.entries[i].name),
                            reply.extractedFields.entries[i].value).valid

\* C25: interpretation precedes validation: the unknown-field check is applied
\* to every key of the extracted mapping before any value is validated, so a
\* reply that contains both an invalid value for a known field and an unknown
\* field name always fails with "Field not in form definition" and never with
\* the validation reason, whatever the order of the keys.
C25_UnknownKeyBeforeValidation ==
    (pc = "returned" /\ ReplyHasInvalidValueAndUnknownKey) =>
        /\ outcome.kind = "error"
        /\ outcome.error.message = Msg("Field not in form definition", 0, <<>>)
        /\ outcome.error.errorCode # "VALIDATION_ERROR"

\* the invalid value comes first in the reply and the unknown key second
C25_Witness ==
    /\ pc = "returned"
    /\ ReplyHasInvalidValueAndUnknownKey
    /\ reply.extractedFields.entries[1].name \in FieldNames(form)
    /\ reply.extractedFields.entries[2].name \notin FieldNames(form)
    /\ outcome.kind = "error"
    /\ outcome.error.message = Msg("Field not in form definition", 0, <<>>)

\* C27: completion is monotone across turns: in the documented caller loop,
\* where session.fields only grows by appending each successful turn's
\* extracted fields, once a turn has reported isComplete = true (the caller
\* then marks the session COMPLETED) every later successful turn on the
\* derived session also reports isComplete = true and no nextField, whatever
\* the model extracts.
C27_CompletionMonotone ==
    (HasResult /\ session.status = "COMPLETED") =>
        /\ outcome.result.isComplete
        /\ outcome.result.nextField = Undefined

\* a later turn on a completed session of a form with a required field, in
\* which the model extracts nothing
C27_Witness ==
    /\ HasResult
    /\ session.status = "COMPLETED"
    /\ RequiredIds(form) # {}
    /\ reply.extractedFields.entries = <<>>
    /\ outcome.result.isComplete

\* the entries of the mapping a result carries
ResultEntries == outcome.result.extractedFields.entries

\* the fields of the form that carry the name
FieldsNamed(f, name) == { fd \in FieldsOf(f) : fd.name = name }

\* C23: every value in the extractedFields of a result returned by runLlmStep
\* is a text string, a number, a date or the absent marker (null); no other
\* shape (boolean, array, nested object) carried by the model's JSON reply is
\* ever accepted, for any field kind.  A date of a JSON reply is a string.
C23_OnlyFieldValuesAccepted ==
    HasResult =>
        \A i \in 1..Len(ResultEntries) :
            ResultEntries[i].value.t \in {"string", "number", "null"}

\* C24: accepted values satisfy their field's declared constraints: whenever
\* runLlmStep returns a result, each non-absent extracted value for a NUMBER
\* field is a number v with min <= v <= max for every declared bound, and
\* each non-absent extracted value for an ENUM field is a member of the
\* field's option list; this holds for every value the model can propose,
\* including non-numeric text for a NUMBER field and a field declared
\* without an option list.
C24_AcceptedValuesSatisfyConstraints ==
    HasResult =>
        \A i \in 1..Len(ResultEntries) :
            \A fd \in FieldsNamed(form, ResultEntries[i].name) :
                LET v == ResultEntries[i].value
                    rules == fd.validation
                IN  /\ (fd.type = "NUMBER" /\ v.t # "null") =>
                          /\ v.t = "number"
                          /\ rules.hasMin => rules.min <= v.n
                          /\ rules.hasMax => v.n <= rules.max
                    /\ (fd.type = "ENUM" /\ v.t # "null") =>
                          /\ v.t = "string"
                          /\ rules.hasOptions
                          /\ \E k \in 1..Len(rules.options) : rules.options[k] = v.s

\* the field of the form with the id
FieldWithId(f, id) == CHOOSE fd \in FieldsOf(f) : fd.id = id

\* C29: for every extracted field name, the field definition against which
\* the value is validated is the same field whose id is then counted in the
\* completion union and recorded as collected, also in a form in which two
\* fields share a programmatic name: every collected field of the session
\* holds a value that its own field's validation accepts, so a required field
\* is never counted as collected on the strength of a value validated against
\* a different field's kind and constraints.
C29_CollectedValueValidForItsField ==
    \A i \in 1..Len(session.fields) :
        validateField(FieldWithId(form, session.fields[i].fieldId),
                      session.fields[i].value).valid

\* the required fields of the form that the session has not collected
UncollectedRequired(f, sess) ==
    { fd \in FieldsOf(f) : fd.required /\ fd.id \notin CollectedIds(sess) }

\* the nextField the caller asks for in this turn: the name of the first
\* uncollected required field of its session, which is the nextField the turn
\* before reported
ReportedNextField == FirstAbsentRequired(form, CollectedIds(session))

\* C28: progress: in the documented caller loop, nextField always names a
\* required field that is not yet collected; if in every turn the model
\* extracts a valid value for the reported nextField, the number of
\* uncollected required fields strictly decreases each turn, so that a turn
\* reporting isComplete = true is reached after at most as many turns as the
\* form has required fields.  Stated on the caller's step from a result: the
\* nextField of the result names an uncollected required field of the derived
\* session, a result without nextField is complete, and a turn that extracted
\* the reported nextField derives a session with fewer uncollected required
\* fields.
C28_ProgressEachTurn ==
    [][(HasResult /\ session' # session) =>
          /\ outcome.result.nextField # Undefined =>
                \E fd \in UncollectedRequired(form, session') :
                    fd.name = outcome.result.nextField
          /\ outcome.result.nextField = Undefined =>
                /\ outcome.result.isComplete
                /\ UncollectedRequired(form, session') = {}
          /\ (/\ UncollectedRequired(form, session) # {}
              /\ ReportedNextField \in ExtractedNames(outcome.result.extractedFields)) =>
                Cardinality(UncollectedRequired(form, session'))
                  < Cardinality(UncollectedRequired(form, session))]_vars

\* a second turn on a form with three required fields, in which the model
\* extracts the field the first turn reported as nextField and the result
\* reports the one that is left
C28_Witness ==
    /\ HasResult
    /\ session.turns # <<>>
    /\ Cardinality(UncollectedRequired(form, session)) = 2
    /\ ExtractedNames(outcome.result.extractedFields) = {ReportedNextField}
    /\ ~outcome.result.isComplete
    /\ outcome.result.nextField # Undefined
    /\ outcome.result.nextField # ReportedNextField

====
